---- MODULE Spec2Model ----
\* Batched, retrying bathymetry lookup of src/pages/index.tsx (component Home):
\* handleSubmit, runInBatches, parseCoordinate and the constants they use, and
\* the CSV import (displayCsvValues, parseStringCoordinate).
EXTENDS Integers, Sequences, FiniteSets, TLC

\* ---------------------------------------------------------------- bounds
\* longest list of coordinates submitted
MaxCoords == 6
\* most fetches of one run that come back without features (empty or failed)
MaxMisses == 6

\* ------------------------------------------------------------- constants
REQ_LIMIT_PER_MIN == 60
BATCH_SIZE == 10
MAX_CONCURRENT_REQUESTS == 5
\* the delay with the factor 1000 left out
BATCH_DELAY_seconds == 60 \div (REQ_LIMIT_PER_MIN \div BATCH_SIZE)
BATCH_DELAY == (60 \div (REQ_LIMIT_PER_MIN \div BATCH_SIZE)) * 1000
\* the literal 5 of the requeue test `(result.coord.mapLayerId ?? 0) < 5`
RequeueBelow == 5

BatchFailedMessage == "Erro durante a consulta em lote."

\* ------------------------------------------------------------- texts
\* A text is a sequence of one-character strings.
Digits == <<"0", "1", "2", "3", "4", "5", "6", "7", "8", "9">>

IsDigit(c) == \E d \in 1..10 : Digits[d] = c

Null == [null |-> TRUE]

\* String.prototype.replace(",", "."): only the first comma is replaced.
RECURSIVE ReplaceFirstComma(_)
ReplaceFirstComma(s) ==
    IF s = <<>> THEN <<>>
    ELSE IF Head(s) = "," THEN <<".">> \o Tail(s)
    ELSE <<Head(s)>> \o ReplaceFirstComma(Tail(s))

RECURSIVE SkipSpaces(_)
SkipSpaces(s) ==
    IF s # <<>> /\ Head(s) = " " THEN SkipSpaces(Tail(s)) ELSE s

RECURSIVE DigitPrefix(_)
DigitPrefix(s) ==
    IF s # <<>> /\ IsDigit(Head(s)) THEN <<Head(s)>> \o DigitPrefix(Tail(s))
    ELSE <<>>

\* parseFloat on texts without exponent or "Infinity": leading blanks, an
\* optional sign, digits, an optional point and digits; the longest such prefix
\* is the number, and no digit at all is NaN.
ParseFloat(s) ==
    LET t == SkipSpaces(s)
        signed == t # <<>> /\ Head(t) \in {"-", "+"}
        u == IF signed THEN Tail(t) ELSE t
        whole == DigitPrefix(u)
        v == SubSeq(u, Len(whole) + 1, Len(u))
        frac == IF v # <<>> /\ Head(v) = "." THEN DigitPrefix(Tail(v)) ELSE <<>>
    IN IF whole = <<>> /\ frac = <<>>
       THEN [nan |-> TRUE, neg |-> FALSE, whole |-> <<>>, frac |-> <<>>]
       ELSE [nan |-> FALSE, neg |-> signed /\ Head(t) = "-",
             whole |-> whole, frac |-> frac]

parseCoordinate(value) ==
    LET parsed == ParseFloat(ReplaceFirstComma(value))
    IN IF parsed.nan THEN Null ELSE parsed

\* ------------------------------------------------------------- inputs
Coordinate(lat, lon) == [latitude |-> lat, longitude |-> lon]

SampleCoordinates ==
    { Coordinate(<<"-", "2", ",", "2">>, <<"-", "4", "7">>),
      Coordinate(<<"a">>, <<"-", "4", "7">>) }

InputLists == UNION { [1..n -> SampleCoordinates] : n \in 1..MaxCoords }

\* Features of a response: each feature is its depth attribute.
FeatureLists == { <<>>, <<10>> }

\* ------------------------------------------------------------- state
\* coordinates, results, loading, error: the component's useState values.
\* pc, queue, batchPromises, runResults: where the running handleSubmit is, and
\* the locals queue, batchPromises/batchResults and results of runInBatches.
\* timer: milliseconds left of the pending setTimeout; issued: the fetches this
\* run issued, by age (issued[k] were issued k-1 ticks ago).
\* misses, lastRun: bookkeeping (misses of the run; how the last run ended).
VARIABLES coordinates, results, loading, error,
          pc, queue, batchPromises, runResults, timer, issued, misses, lastRun,
          upload

progVars == <<coordinates, results, loading, error, pc, queue, batchPromises,
              runResults, misses, lastRun>>
clockVars == <<timer, issued>>
vars == <<progVars, clockVars, upload>>

Min(a, b) == IF a < b THEN a ELSE b

Range(s) == { s[i] : i \in DOMAIN s }

RECURSIVE Sum(_)
Sum(s) == IF s = <<>> THEN 0 ELSE Head(s) + Sum(Tail(s))

\* one tick of the clock is a sixth of a minute; a window of a minute, both
\* ends included, spans WindowTicks ticks
TickMs == 60000 \div 6
WindowTicks == (60000 \div TickMs) + 1

NoneIssued == [k \in 1..WindowTicks |-> 0]

\* upload: the parse result last handed to displayCsvValues with the list it
\* found, while no other handler has changed the list since
NoUpload == [none |-> TRUE]

Init ==
    /\ coordinates \in InputLists
    /\ results = <<>>
    /\ loading = FALSE
    /\ error = ""
    /\ pc = "idle"
    /\ queue = <<>>
    /\ batchPromises = <<>>
    /\ runResults = <<>>
    /\ timer = 0
    /\ issued = NoneIssued
    /\ misses = 0
    /\ lastRun = "none"
    /\ upload = NoUpload

\* ------------------------------------------------------------- runInBatches
\* queue: coordinates.map(coord => ({...coord, mapLayerId: 0})). A task also
\* carries its history: the layers its fetches were issued against, the
\* features its last fetch returned and the number of batches it was part of.
initialQueue(coords) ==
    [i \in 1..Len(coords) |->
        [latitude |-> coords[i].latitude, longitude |-> coords[i].longitude,
         mapLayerId |-> 0, fetched |-> <<>>, served |-> <<>>, passes |-> 0]]

\* parses with `&&` for `||` in the test of the early return
parsesEither(coord) ==
    parseCoordinate(coord.latitude) # Null \/ parseCoordinate(coord.longitude) # Null

parses(coord) ==
    parseCoordinate(coord.latitude) # Null /\ parseCoordinate(coord.longitude) # Null

\* The async callback of batch.map up to its first await: a coordinate that
\* does not parse is fulfilled at once with no features, any other has its
\* fetch issued and is pending.
batchPromise(coord) ==
    IF ~parses(coord)
    THEN [coord |-> [coord EXCEPT !.passes = @ + 1],
          state |-> "fulfilled", features |-> <<>>,
          defined |-> TRUE, via |-> "noparse"]
    ELSE [coord |-> [coord EXCEPT !.passes = @ + 1,
                                  !.fetched = Append(@, coord.mapLayerId)],
          state |-> "pending", features |-> <<>>,
          defined |-> TRUE, via |-> "fetch"]

\* startBatch taking the whole queue as one batch
startBatchWholeQueue(q, batchSize) ==
    [queue |-> <<>>,
     batchPromises |-> [i \in 1..Len(q) |-> batchPromise(q[i])]]

\* startBatch with slice(0, batchSize - 1) as the batch of the spliced tasks
startBatchDropsLast(q, batchSize) ==
    LET n == Min(batchSize, Len(q))
        batch == SubSeq(q, 1, n - 1)
    IN [queue |-> SubSeq(q, n + 1, Len(q)),
        batchPromises |-> [i \in 1..(n - 1) |-> batchPromise(batch[i])]]

\* startBatch taking the batch from the back of the queue
startBatchFromBack(q, batchSize) ==
    LET n == Min(batchSize, Len(q))
        batch == SubSeq(q, Len(q) - n + 1, Len(q))
    IN [queue |-> SubSeq(q, 1, Len(q) - n),
        batchPromises |-> [i \in 1..n |-> batchPromise(batch[i])]]

\* queue.splice(0, batchSize) and batch.map(...)
startBatch(q, batchSize) ==
    LET n == Min(batchSize, Len(q))
        batch == SubSeq(q, 1, n)
    IN [queue |-> SubSeq(q, n + 1, Len(q)),
        batchPromises |-> [i \in 1..n |-> batchPromise(batch[i])]]

\* caught letting the failure through: the result is of no use to the loop
caughtRethrows(promise) ==
    [promise EXCEPT !.state = "fulfilled", !.defined = FALSE, !.via = "caught"]

\* the catch of the callback: the failure is logged and the result has no features
caught(promise) ==
    [promise EXCEPT !.state = "fulfilled", !.features = <<>>, !.via = "caught"]

\* return { coord, features: res.features }
fulfilled(promise, body) ==
    [promise EXCEPT !.state = "fulfilled", !.features = body.features,
                    !.defined = body.hasFeatures, !.via = "ok",
                    !.coord.served = body.features]

\* processResults pushing only results that have features
RECURSIVE processResultsDropsExhausted(_, _, _, _)
processResultsDropsExhausted(br, i, q, res) ==
    IF i > Len(br) THEN [queue |-> q, results |-> res, thrown |-> FALSE]
    ELSE LET result == br[i] IN
         IF ~result.defined THEN [queue |-> q, results |-> res, thrown |-> TRUE]
         ELSE IF Len(result.features) = 0
         THEN IF result.coord.mapLayerId < RequeueBelow
              THEN processResultsDropsExhausted(br, i + 1,
                       <<[result.coord EXCEPT !.mapLayerId = result.coord.mapLayerId + 1]>> \o q,
                       res)
              ELSE processResultsDropsExhausted(br, i + 1, q, res)
         ELSE processResultsDropsExhausted(br, i + 1, q,
                  Append(res, [coord |-> result.coord, features |-> result.features]))

\* processResults with `||` for `&&` in the requeue test
RECURSIVE processResultsOr(_, _, _, _)
processResultsOr(br, i, q, res) ==
    IF i > Len(br) THEN [queue |-> q, results |-> res, thrown |-> FALSE]
    ELSE LET result == br[i] IN
         IF ~result.defined THEN [queue |-> q, results |-> res, thrown |-> TRUE]
         ELSE IF Len(result.features) = 0 \/ result.coord.mapLayerId < RequeueBelow
         THEN processResultsOr(br, i + 1,
                  <<[result.coord EXCEPT !.mapLayerId = result.coord.mapLayerId + 1]>> \o q,
                  res)
         ELSE processResultsOr(br, i + 1, q,
                  Append(res, [coord |-> result.coord, features |-> result.features]))

\* processResults without the requeue: every result is pushed
RECURSIVE processResultsNoRetry(_, _, _, _)
processResultsNoRetry(br, i, q, res) ==
    IF i > Len(br) THEN [queue |-> q, results |-> res, thrown |-> FALSE]
    ELSE LET result == br[i] IN
         IF ~result.defined THEN [queue |-> q, results |-> res, thrown |-> TRUE]
         ELSE processResultsNoRetry(br, i + 1, q,
                  Append(res, [coord |-> result.coord, features |-> result.features]))

\* processResults requeuing the tasks of a batch in their batch order: each goes
\* behind those the same loop has already requeued
RECURSIVE processResultsBatchOrder(_, _, _, _)
processResultsBatchOrder(br, i, q, res) ==
    IF i > Len(br) THEN [queue |-> q, results |-> res, thrown |-> FALSE]
    ELSE LET result == br[i]
             k == Cardinality({ n \in DOMAIN q : \A j \in 1..n : q[j].passes > 0 })
         IN
         IF ~result.defined THEN [queue |-> q, results |-> res, thrown |-> TRUE]
         ELSE IF Len(result.features) = 0 /\ result.coord.mapLayerId < RequeueBelow
         THEN processResultsBatchOrder(br, i + 1,
                  SubSeq(q, 1, k)
                    \o <<[result.coord EXCEPT !.mapLayerId = result.coord.mapLayerId + 1]>>
                    \o SubSeq(q, k + 1, Len(q)),
                  res)
         ELSE processResultsBatchOrder(br, i + 1, q,
                  Append(res, [coord |-> result.coord, features |-> result.features]))

\* processResults requeuing with the layer after the next
RECURSIVE processResultsSkipsLayer(_, _, _, _)
processResultsSkipsLayer(br, i, q, res) ==
    IF i > Len(br) THEN [queue |-> q, results |-> res, thrown |-> FALSE]
    ELSE LET result == br[i] IN
         IF ~result.defined THEN [queue |-> q, results |-> res, thrown |-> TRUE]
         ELSE IF Len(result.features) = 0 /\ result.coord.mapLayerId < RequeueBelow
         THEN processResultsSkipsLayer(br, i + 1,
                  <<[result.coord EXCEPT !.mapLayerId = result.coord.mapLayerId + 2]>> \o q,
                  res)
         ELSE processResultsSkipsLayer(br, i + 1, q,
                  Append(res, [coord |-> result.coord, features |-> result.features]))

\* processResults requeuing at the back of the queue (push for unshift)
RECURSIVE processResultsRequeueAtBack(_, _, _, _)
processResultsRequeueAtBack(br, i, q, res) ==
    IF i > Len(br) THEN [queue |-> q, results |-> res, thrown |-> FALSE]
    ELSE LET result == br[i] IN
         IF ~result.defined THEN [queue |-> q, results |-> res, thrown |-> TRUE]
         ELSE IF Len(result.features) = 0 /\ result.coord.mapLayerId < RequeueBelow
         THEN processResultsRequeueAtBack(br, i + 1,
                  Append(q, [result.coord EXCEPT !.mapLayerId = result.coord.mapLayerId + 1]),
                  res)
         ELSE processResultsRequeueAtBack(br, i + 1, q,
                  Append(res, [coord |-> result.coord, features |-> result.features]))

\* for (const result of batchResults) {...}: requeue at the front with the next
\* layer, or push to results; reading .length of missing features throws.
RECURSIVE processResults(_, _, _, _)
processResults(br, i, q, res) ==
    IF i > Len(br) THEN [queue |-> q, results |-> res, thrown |-> FALSE]
    ELSE LET result == br[i] IN
         IF ~result.defined THEN [queue |-> q, results |-> res, thrown |-> TRUE]
         ELSE IF Len(result.features) = 0 /\ result.coord.mapLayerId < RequeueBelow
         THEN processResults(br, i + 1,
                  <<[result.coord EXCEPT !.mapLayerId = result.coord.mapLayerId + 1]>> \o q,
                  res)
         ELSE processResults(br, i + 1, q,
                  Append(res, [coord |-> result.coord, features |-> result.features]))

\* afterRun publishing what was collected when the run threw
afterRunPublishesPartial(thrown, allResults, shown) ==
    [results |-> allResults,
     error |-> IF thrown THEN BatchFailedMessage ELSE "",
     loading |-> FALSE,
     lastRun |-> IF thrown THEN "failed" ELSE "returned"]

\* handleSubmit after `await runInBatches`: setResults(allResults), or the
\* catch with setError; then setLoading(false).
afterRun(thrown, allResults, shown) ==
    IF thrown
    THEN [results |-> shown, error |-> BatchFailedMessage, loading |-> FALSE,
          lastRun |-> "failed"]
    ELSE [results |-> allResults, error |-> "", loading |-> FALSE,
          lastRun |-> "returned"]

\* ------------------------------------------------------------- actions
\* Submit without setError(""): the message of an earlier run stays
SubmitKeepsError ==
    /\ pc = "idle"
    /\ ~loading
    /\ misses' = 0
    /\ loading' = TRUE
    /\ results' = <<>>
    /\ runResults' = <<>>
    /\ lastRun' = "running"
    /\ LET b == startBatch(initialQueue(coordinates), MAX_CONCURRENT_REQUESTS)
       IN /\ queue' = b.queue
          /\ batchPromises' = b.batchPromises
    /\ pc' = "awaitAll"
    /\ UNCHANGED <<coordinates, error>>

\* handleSubmit up to the first await of runInBatches (the submit button is
\* disabled while loading).
Submit ==
    /\ pc = "idle"
    /\ ~loading
    /\ misses' = 0
    /\ loading' = TRUE
    /\ error' = ""
    /\ results' = <<>>
    /\ runResults' = <<>>
    /\ lastRun' = "running"
    /\ LET b == startBatch(initialQueue(coordinates), MAX_CONCURRENT_REQUESTS)
       IN /\ queue' = b.queue
          /\ batchPromises' = b.batchPromises
    /\ pc' = "awaitAll"
    /\ UNCHANGED coordinates

\* fetchDepthForEnvelope resolves with a body that has a features list
FetchFeatures(i) ==
    /\ pc = "awaitAll"
    /\ i \in DOMAIN batchPromises
    /\ batchPromises[i].state = "pending"
    /\ \E fl \in FeatureLists :
          /\ fl = <<>> => misses < MaxMisses
          /\ misses' = IF fl = <<>> THEN misses + 1 ELSE misses
          /\ batchPromises' = [batchPromises EXCEPT ![i] =
                fulfilled(@, [hasFeatures |-> TRUE, features |-> fl])]
    /\ UNCHANGED <<coordinates, results, loading, error, pc, queue, runResults,
                   lastRun>>

\* the body of a successful response has no features member
FetchNoFeatures(i) ==
    /\ pc = "awaitAll"
    /\ i \in DOMAIN batchPromises
    /\ batchPromises[i].state = "pending"
    /\ batchPromises' = [batchPromises EXCEPT ![i] =
          fulfilled(@, [hasFeatures |-> FALSE, features |-> <<>>])]
    /\ UNCHANGED <<coordinates, results, loading, error, pc, queue, runResults,
                   misses, lastRun>>

\* fetch rejects, or res.ok is false and fetchDepthForEnvelope throws
FetchFails(i) ==
    /\ pc = "awaitAll"
    /\ i \in DOMAIN batchPromises
    /\ batchPromises[i].state = "pending"
    /\ misses < MaxMisses
    /\ misses' = misses + 1
    /\ \E kind \in {"status", "transport"} :
          batchPromises' = [batchPromises EXCEPT ![i] = caught(@)]
    /\ UNCHANGED <<coordinates, results, loading, error, pc, queue, runResults,
                   lastRun>>

\* allSettled resolving with the first promise that settles (a race)
anySettled(promises) ==
    \E i \in DOMAIN promises : promises[i].state = "fulfilled"

\* await Promise.all(batchPromises): every promise of the batch has settled
\* (none rejects: the callback catches)
allSettled(promises) ==
    \A i \in DOMAIN promises : promises[i].state = "fulfilled"

\* Promise.all resolves; the result loop runs; then the delay starts, or
\* runInBatches returns to handleSubmit, or the loop throws into its catch.
Join ==
    /\ pc = "awaitAll"
    /\ allSettled(batchPromises)
    /\ LET r == processResults(batchPromises, 1, queue, runResults)
       IN /\ queue' = r.queue
          /\ runResults' = r.results
          /\ IF ~r.thrown /\ Len(r.queue) > 0
             THEN /\ pc' = "delay"
                  /\ UNCHANGED <<results, loading, error, lastRun>>
             ELSE LET a == afterRun(r.thrown, r.results, results)
                  IN /\ results' = a.results
                     /\ error' = IF r.thrown THEN a.error ELSE error
                     /\ loading' = a.loading
                     /\ lastRun' = a.lastRun
                     /\ pc' = "idle"
    /\ batchPromises' = <<>>
    /\ UNCHANGED <<coordinates, misses>>

\* the setTimeout of BATCH_DELAY has fired and the loop takes the next batch
NextBatch ==
    /\ pc = "delay"
    /\ LET b == startBatch(queue, MAX_CONCURRENT_REQUESTS)
       IN /\ queue' = b.queue
          /\ batchPromises' = b.batchPromises
    /\ pc' = "awaitAll"
    /\ UNCHANGED <<coordinates, results, loading, error, runResults, misses, lastRun>>

Next ==
    \/ Submit /\ UNCHANGED <<clockVars, upload>>
    \/ \E i \in 1..MAX_CONCURRENT_REQUESTS : FetchFeatures(i) /\ UNCHANGED <<clockVars, upload>>
    \/ \E i \in 1..MAX_CONCURRENT_REQUESTS : FetchNoFeatures(i) /\ UNCHANGED <<clockVars, upload>>
    \/ \E i \in 1..MAX_CONCURRENT_REQUESTS : FetchFails(i) /\ UNCHANGED <<clockVars, upload>>
    \/ Join /\ UNCHANGED <<clockVars, upload>>
    \/ NextBatch /\ UNCHANGED <<clockVars, upload>>

Spec == Init /\ [][Next]_vars

\* ------------------------------------------------------------- with progress
\* the fetch of slot i completes, with any of its outcomes
FetchCompletes(i) ==
    FetchFeatures(i) \/ FetchNoFeatures(i) \/ FetchFails(i)

\* Every fetch in flight completes, the continuation of a settled Promise.all
\* runs, and the timer of the delay fires. The user need never submit.
LiveSpec ==
    /\ Spec
    /\ \A i \in 1..MAX_CONCURRENT_REQUESTS : WF_vars(FetchCompletes(i) /\ UNCHANGED <<clockVars, upload>>)
    /\ WF_vars(Join /\ UNCHANGED <<clockVars, upload>>)
    /\ WF_vars(NextBatch /\ UNCHANGED <<clockVars, upload>>)

\* ------------------------------------------------------------- with the clock
InFlight == Cardinality({ i \in DOMAIN batchPromises : batchPromises[i].state = "pending" })

\* the fetches just issued are the youngest of the window
issue(window, n) == [window EXCEPT ![1] = @ + n]

\* TickMs pass while the timer runs: it counts down and every issued fetch ages
Tick ==
    /\ pc = "delay"
    /\ timer > 0
    /\ timer' = IF timer > TickMs THEN timer - TickMs ELSE 0
    /\ issued' = <<0>> \o SubSeq(issued, 1, WindowTicks - 1)
    /\ UNCHANGED progVars

\* the timer fires late by more than a minute: nothing issued is still young
Stall ==
    /\ pc = "delay"
    /\ issued # NoneIssued
    /\ timer' = 0
    /\ issued' = NoneIssued
    /\ UNCHANGED progVars

TimedSubmit ==
    /\ Submit
    /\ timer' = 0
    /\ issued' = issue(NoneIssued,
          Cardinality({ i \in DOMAIN batchPromises' : batchPromises'[i].state = "pending" }))

\* await new Promise(resolve => setTimeout(resolve, BATCH_DELAY))
TimedJoin ==
    /\ Join
    /\ timer' = IF pc' = "delay" THEN BATCH_DELAY ELSE 0
    /\ UNCHANGED issued

\* TimedNextBatch without the wait: the next batch starts while the timer runs
TimedNextBatchNoWait ==
    /\ NextBatch
    /\ timer' = 0
    /\ issued' = issue(issued,
          Cardinality({ i \in DOMAIN batchPromises' : batchPromises'[i].state = "pending" }))

\* a timer with less than a tick left fires within the tick
TimedNextBatch ==
    /\ timer < TickMs
    /\ NextBatch
    /\ timer' = 0
    /\ issued' = issue(issued,
          Cardinality({ i \in DOMAIN batchPromises' : batchPromises'[i].state = "pending" }))

TimedNext ==
    \/ TimedSubmit /\ UNCHANGED upload
    \/ \E i \in 1..MAX_CONCURRENT_REQUESTS : FetchFeatures(i) /\ UNCHANGED <<clockVars, upload>>
    \/ \E i \in 1..MAX_CONCURRENT_REQUESTS : FetchNoFeatures(i) /\ UNCHANGED <<clockVars, upload>>
    \/ \E i \in 1..MAX_CONCURRENT_REQUESTS : FetchFails(i) /\ UNCHANGED <<clockVars, upload>>
    \/ TimedJoin /\ UNCHANGED upload
    \/ TimedNextBatch /\ UNCHANGED upload
    \/ Tick /\ UNCHANGED upload
    \/ Stall /\ UNCHANGED upload

TimedSpec == Init /\ [][TimedNext]_vars

\* ------------------------------------------------------------- CSV import
\* A cell after Papa.parse with dynamicTyping: null for an empty field, a
\* number for a numeric field, else its text.
NullCell == [kind |-> "null"]
NumberCell(n) == [kind |-> "number", value |-> n]
TextCell(t) == [kind |-> "string", text |-> t]

\* `lat && lon`: null, 0 and the empty text are falsy
truthy(cell) ==
    \/ cell.kind = "number" /\ cell.value # 0
    \/ cell.kind = "string" /\ cell.text # <<>>

\* what a throw of parseStringCoordinate leaves instead of a number
Failure == [failure |-> TRUE]

NoMatch == [matched |-> FALSE]

RECURSIVE TrimEnd(_)
TrimEnd(s) ==
    IF s # <<>> /\ s[Len(s)] = " " THEN TrimEnd(SubSeq(s, 1, Len(s) - 1)) ELSE s

\* String.prototype.trim on texts whose only blanks are spaces
Trim(s) == TrimEnd(SkipSpaces(s))

DigitValue(c) == CHOOSE v \in 0..9 : Digits[v + 1] = c

\* parseInt(digits, 10) of a text of digits
RECURSIVE TextToNat(_)
TextToNat(s) ==
    IF s = <<>> THEN 0 ELSE TextToNat(SubSeq(s, 1, Len(s) - 1)) * 10 + DigitValue(s[Len(s)])

RECURSIVE Pow10(_)
Pow10(k) == IF k = 0 THEN 1 ELSE 10 * Pow10(k - 1)

Hemispheres == {"N", "S", "E", "W", "n", "s", "e", "w"}

\* the end of the pattern, `"?([NSEW])` with the flag i: the text goes on with
\* an optional double quote and a hemisphere letter
hemisphereAt(s) ==
    LET u == IF s # <<>> /\ Head(s) = "\"" THEN Tail(s) ELSE s
    IN IF u # <<>> /\ Head(u) \in Hemispheres
       THEN [matched |-> TRUE, direction |-> Head(u)]
       ELSE NoMatch

\* the third group with k digits before the point, `\d{1,2}(?:\.\d+)?`, then
\* the end of the pattern. The fraction is taken whole when a point and a digit
\* follow: a shorter one leaves a digit where the pattern has none.
secondsAt(s, k) ==
    IF ~(Len(s) >= k /\ \A i \in 1..k : IsDigit(s[i])) THEN NoMatch
    ELSE LET v == SubSeq(s, k + 1, Len(s))
             frac == IF v # <<>> /\ Head(v) = "." THEN DigitPrefix(Tail(v)) ELSE <<>>
             rest == IF frac = <<>> THEN v ELSE SubSeq(v, Len(frac) + 2, Len(v))
             h == hemisphereAt(rest)
         IN IF h.matched
            THEN [matched |-> TRUE, seconds |-> TRUE, whole |-> SubSeq(s, 1, k),
                  frac |-> frac, direction |-> h.direction]
            ELSE NoMatch

\* the pattern from its third group on: the group is tried with two digits,
\* with one, and then left out (it is optional and greedy)
afterMinutes(s) ==
    IF secondsAt(s, 2).matched THEN secondsAt(s, 2)
    ELSE IF secondsAt(s, 1).matched THEN secondsAt(s, 1)
    ELSE LET h == hemisphereAt(s)
         IN IF h.matched
            THEN [matched |-> TRUE, seconds |-> FALSE, whole |-> <<>>, frac |-> <<>>,
                  direction |-> h.direction]
            ELSE NoMatch

\* the pattern tried at position start with d digits of degrees and m digits
\* of minutes: the degree sign, blanks, the minutes, an optional apostrophe
matchAt(s, start, d, m) ==
    IF ~(start + d <= Len(s) /\ (\A i \in start..(start + d - 1) : IsDigit(s[i]))
           /\ s[start + d] = "°")
    THEN NoMatch
    ELSE LET r == SkipSpaces(SubSeq(s, start + d + 1, Len(s)))
         IN IF ~(Len(r) >= m /\ \A i \in 1..m : IsDigit(r[i])) THEN NoMatch
            ELSE LET u == SubSeq(r, m + 1, Len(r))
                     v == IF u # <<>> /\ Head(u) = "'" THEN Tail(u) ELSE u
                     t == afterMinutes(v)
                 IN IF t.matched
                    THEN [t EXCEPT !.matched = TRUE] @@
                         [degrees |-> SubSeq(s, start, start + d - 1),
                          minutes |-> SubSeq(r, 1, m)]
                    ELSE NoMatch

\* regex.exec of the pattern, which is not anchored: the tries in the order of
\* a backtracking matcher, leftmost start first, then the longer degrees, then
\* the longer minutes; try n is start n \div 6 + 1 with degrees 3, 3, 2, 2, 1, 1
\* and minutes 2, 1, 2, 1, 2, 1
RECURSIVE regexExecFrom(_, _)
regexExecFrom(s, n) ==
    IF n >= 6 * Len(s) THEN NoMatch
    ELSE IF matchAt(s, (n \div 6) + 1, 3 - ((n % 6) \div 2), 2 - (n % 2)).matched
    THEN matchAt(s, (n \div 6) + 1, 3 - ((n % 6) \div 2), 2 - (n % 2))
    ELSE regexExecFrom(s, n + 1)

regexExec(s) == regexExecFrom(s, 0)

\* Math.round(x) for x = num / den with den > 0: the nearest integer, a half
\* going up
MathRound(num, den) == (2 * num + den) \div (2 * den)

\* the number of a match in hundredths (it is a multiple of 0.01), or Failure:
\* the throw for a missing group. The arithmetic is exact.
decimalOf(match) ==
    IF ~match.matched THEN Failure
    ELSE IF ~match.seconds THEN Failure
    ELSE LET scale == Pow10(Len(match.frac))
             num == 100 * (TextToNat(match.degrees) * 3600 * scale
                           + TextToNat(match.minutes) * 60 * scale
                           + TextToNat(match.whole) * scale + TextToNat(match.frac))
         IN [hundredths |->
                MathRound(IF match.direction \in {"S", "s", "W", "w"} THEN -num ELSE num,
                          3600 * scale)]

\* parseStringCoordinate: the number, or Failure when it throws: the Error of a
\* missing group, or the TypeError of trim on a cell that is no text
parseStringCoordinate(coordinate) ==
    IF coordinate.kind # "string" THEN Failure
    ELSE decimalOf(regexExec(Trim(coordinate.text)))

RECURSIVE NatToText(_)
NatToText(n) ==
    IF n < 10 THEN <<Digits[n + 1]>> ELSE NatToText(n \div 10) \o <<Digits[(n % 10) + 1]>>

\* Number.prototype.toString of a multiple of 0.01: no trailing zero, no point
\* for an integer
numberToString(number) ==
    LET h == number.hundredths
        a == IF h < 0 THEN -h ELSE h
        f == a % 100
    IN (IF h < 0 THEN <<"-">> ELSE <<>>)
       \o NatToText(a \div 100)
       \o (IF f = 0 THEN <<>>
           ELSE IF f % 10 = 0 THEN <<".", Digits[(f \div 10) + 1]>>
           ELSE <<".", Digits[(f \div 10) + 1], Digits[(f % 10) + 1]>>)

\* a row of results.data: its fields _3 (latitude) and _6 (longitude)
Row(lat, lon) == [col_3 |-> lat, col_6 |-> lon]

LatSouth == TextCell(<<"2", "3", "°", "1", "2", "'", "3", "0", ".", "5", "\"", "S">>)
LatNorth == TextCell(<<" ", "2", "°", "3", "0", "'", "0", "\"", "N">>)
LonWest == TextCell(<<"4", "7", "°", " ", "5", "'", "7", "\"", "w">>)
NoSeconds == TextCell(<<"2", "3", "°", "1", "2", "'", "S">>)

HeaderRow == Row(TextCell(<<"L", "a", "t">>), TextCell(<<"L", "o", "n">>))
RowSouth == Row(LatSouth, LonWest)
RowNorth == Row(LatNorth, LonWest)
RowBadLatitude == Row(NoSeconds, LonWest)
RowBadLongitude == Row(LatSouth, NumberCell(47))
RowNoLatitude == Row(NullCell, LonWest)

\* results.data of the files uploaded
SampleFiles ==
    { <<HeaderRow, HeaderRow, HeaderRow, RowSouth, RowBadLatitude, RowNorth>>,
      <<HeaderRow, HeaderRow, HeaderRow, RowBadLongitude, RowSouth>>,
      <<HeaderRow, HeaderRow, HeaderRow, RowNoLatitude, RowNorth, HeaderRow>>,
      <<HeaderRow, HeaderRow, HeaderRow, RowBadLatitude, RowBadLongitude>>,
      <<RowSouth, RowNorth, RowSouth, RowNorth>>,
      <<HeaderRow, RowSouth>> }

\* the forEach of displayCsvValues with no try around the two parses: the first
\* row that fails ends the loop with its error
RECURSIVE forEachRowNoCatch(_, _, _)
forEachRowNoCatch(data, index, newCoordinates) ==
    IF index >= Len(data) THEN [newCoordinates |-> newCoordinates, thrown |-> FALSE]
    ELSE LET csvRow == data[index + 1]
             lat == csvRow.col_3
             lon == csvRow.col_6
         IN IF index > 2 /\ truthy(lat) /\ truthy(lon)
            THEN IF parseStringCoordinate(lat) # Failure /\ parseStringCoordinate(lon) # Failure
                 THEN forEachRowNoCatch(data, index + 1,
                          Append(newCoordinates,
                                 Coordinate(numberToString(parseStringCoordinate(lat)),
                                            numberToString(parseStringCoordinate(lon)))))
                 ELSE [newCoordinates |-> newCoordinates, thrown |-> TRUE]
            ELSE forEachRowNoCatch(data, index + 1, newCoordinates)

\* displayCsvValues over forEachRowNoCatch: an error leaves before setCoordinates
displayCsvValuesNoCatch(data, prev) ==
    LET r == forEachRowNoCatch(data, 0, <<>>)
    IN [coordinates |-> IF r.thrown THEN prev ELSE prev \o r.newCoordinates,
        thrown |-> r.thrown]

\* results.data.forEach((row, index) => {...}): the rows after the first three
\* with both cells truthy are parsed; a throw of either parse is caught, logged
\* and the row gives nothing
RECURSIVE forEachRow(_, _, _)
forEachRow(data, index, newCoordinates) ==
    IF index >= Len(data) THEN [newCoordinates |-> newCoordinates, thrown |-> FALSE]
    ELSE LET csvRow == data[index + 1]
             lat == csvRow.col_3
             lon == csvRow.col_6
         IN IF index > 2 /\ truthy(lat) /\ truthy(lon)
            THEN IF parseStringCoordinate(lat) # Failure /\ parseStringCoordinate(lon) # Failure
                 THEN forEachRow(data, index + 1,
                          Append(newCoordinates,
                                 Coordinate(numberToString(parseStringCoordinate(lat)),
                                            numberToString(parseStringCoordinate(lon)))))
                 ELSE forEachRow(data, index + 1, newCoordinates)
            ELSE forEachRow(data, index + 1, newCoordinates)

\* displayCsvValues: setCoordinates(prev => [...prev, ...newCoordinates])
displayCsvValues(data, prev) ==
    LET r == forEachRow(data, 0, <<>>)
    IN [coordinates |-> IF r.thrown THEN prev ELSE prev \o r.newCoordinates,
        thrown |-> r.thrown]

formVars == <<results, loading, error, pc, queue, batchPromises, runResults,
              misses, lastRun, clockVars>>

\* the complete callback of Papa.parse for an uploaded file
UploadCsv ==
    /\ \E data \in SampleFiles :
          LET d == displayCsvValues(data, coordinates)
          IN /\ Len(d.coordinates) <= MaxCoords
             /\ coordinates' = d.coordinates
             /\ upload' = [data |-> data, prev |-> coordinates, thrown |-> d.thrown]
    /\ UNCHANGED formVars

\* the button "Adicionar coordenada"
addCoordinate ==
    /\ Len(coordinates) < MaxCoords
    /\ coordinates' = Append(coordinates, Coordinate(<<>>, <<>>))
    /\ upload' = NoUpload
    /\ UNCHANGED formVars

\* the bin button of a row, shown while the list has more than one
removeCoordinate(index) ==
    /\ Len(coordinates) > 1
    /\ index \in 0..(Len(coordinates) - 1)
    /\ coordinates' = SubSeq(coordinates, 1, index)
                        \o SubSeq(coordinates, index + 2, Len(coordinates))
    /\ upload' = NoUpload
    /\ UNCHANGED formVars

\* the form as the component mounts
CsvInit ==
    /\ coordinates = <<Coordinate(<<>>, <<>>)>>
    /\ results = <<>>
    /\ loading = FALSE
    /\ error = ""
    /\ pc = "idle"
    /\ queue = <<>>
    /\ batchPromises = <<>>
    /\ runResults = <<>>
    /\ timer = 0
    /\ issued = NoneIssued
    /\ misses = 0
    /\ lastRun = "none"
    /\ upload = NoUpload

CsvNext ==
    \/ UploadCsv
    \/ addCoordinate
    \/ \E index \in 0..(MaxCoords - 1) : removeCoordinate(index)

CsvSpec == CsvInit /\ [][CsvNext]_vars

\* ------------------------------------------------------------- properties
CoordOf(task) == [latitude |-> task.latitude, longitude |-> task.longitude]

Occurrences(s, x) == Cardinality({ i \in DOMAIN s : s[i] = x })

\* every task of the run: queued, in the batch, or in the output
AllTasks ==
    Range(queue) \cup { batchPromises[i].coord : i \in DOMAIN batchPromises }
                 \cup { runResults[i].coord : i \in DOMAIN runResults }

UpTo(k) == [j \in 1..(k + 1) |-> j - 1]

\* C1: when runInBatches returns, the list it returns (which handleSubmit
\* publishes as results) has one entry per input coordinate: as many entries as
\* inputs, and each coordinate as often as it was submitted.
C1_OneResultPerCoordinate ==
    lastRun = "returned" =>
        /\ Len(results) = Len(coordinates)
        /\ \A c \in Range(coordinates) :
              Occurrences([i \in DOMAIN results |-> CoordOf(results[i].coord)], c)
                  = Occurrences(coordinates, c)

\* a run of more coordinates than one batch holds has returned, with a parse
\* failure, an exhausted coordinate and a found one among them
C1_Witness ==
    /\ lastRun = "returned"
    /\ Len(coordinates) > MAX_CONCURRENT_REQUESTS
    /\ \E i \in DOMAIN results : ~parses(results[i].coord)
    /\ \E i \in DOMAIN results : parses(results[i].coord) /\ results[i].features = <<>>
    /\ \E i \in DOMAIN results : results[i].features # <<>>

\* C2: no coordinate is fetched more than 5 times, and a coordinate output
\* without features after fetching was fetched exactly on the layers 0..4.
C2_ExhaustedAfterFiveAttempts ==
    /\ \A t \in AllTasks : Len(t.fetched) <= 5
    /\ \A i \in DOMAIN runResults :
          (runResults[i].features = <<>> /\ parses(runResults[i].coord))
              => runResults[i].coord.fetched = UpTo(4)

\* C3: a coordinate that does not parse is output without features by the
\* batch that first takes it: it is never queued again and is part of one
\* batch at most.
C3_ParseFailureIsTerminal ==
    \A t \in AllTasks : ~parses(t) => (t.mapLayerId = 0 /\ t.passes <= 1)

\* C4: a task whose fetch returned features is output with exactly these
\* features, after one fetch on each of the layers 0..mapLayerId, and no task
\* that has received features is queued or fetched again.
C4_FeaturesAreTerminal ==
    /\ \A i \in DOMAIN runResults :
          runResults[i].features # <<>> =>
              /\ runResults[i].features = runResults[i].coord.served
              /\ runResults[i].coord.fetched = UpTo(runResults[i].coord.mapLayerId)
    /\ \A t \in Range(queue) : t.served = <<>>
    /\ \A i \in DOMAIN batchPromises :
          batchPromises[i].state = "pending" => batchPromises[i].coord.served = <<>>
    /\ \A i \in DOMAIN batchPromises :
          (batchPromises[i].state = "fulfilled" /\ batchPromises[i].defined)
              => batchPromises[i].features = batchPromises[i].coord.served

\* features found on layer 2 after two empty layers: three fetches
C4_Witness ==
    \E i \in DOMAIN runResults :
        /\ runResults[i].features # <<>>
        /\ runResults[i].coord.mapLayerId = 2
        /\ runResults[i].coord.fetched = <<0, 1, 2>>

\* C5: at most MAX_CONCURRENT_REQUESTS (the batchSize handleSubmit passes)
\* fetches are pending at any moment.
C5_InFlightBounded == InFlight <= MAX_CONCURRENT_REQUESTS

\* a full batch is in flight while another coordinate waits in the queue
C5_Witness == InFlight = MAX_CONCURRENT_REQUESTS /\ queue # <<>>

\* C6: a failed fetch leaves its promise fulfilled with an empty feature list;
\* when the batch is joined (and no body lacked its features) the run has not
\* failed, and every task without features, from a failed fetch as from an
\* empty response, is requeued on the next layer or, on the last layer, output
\* without features.
C6_FetchFailureSwallowed ==
    [][\A i \in DOMAIN batchPromises :
          /\ (batchPromises[i].state = "fulfilled" /\ batchPromises[i].via = "caught")
                => (batchPromises[i].defined /\ batchPromises[i].features = <<>>)
          /\ (/\ batchPromises[i].state = "fulfilled"
              /\ batchPromises[i].via \in {"caught", "ok"}
              /\ batchPromises[i].features = <<>>
              /\ pc' # "awaitAll"
              /\ \A j \in DOMAIN batchPromises : batchPromises[j].defined)
             => /\ lastRun' # "failed"
                /\ error' = ""
                /\ LET t == batchPromises[i].coord
                   IN IF t.mapLayerId < RequeueBelow
                      THEN [t EXCEPT !.mapLayerId = @ + 1] \in Range(queue')
                      ELSE [coord |-> t, features |-> <<>>] \in Range(runResults')
      ]_vars

\* a batch is complete with a failed fetch in it and more coordinates queued
C6_Witness ==
    /\ pc = "awaitAll"
    /\ InFlight = 0
    /\ queue # <<>>
    /\ \A j \in DOMAIN batchPromises : batchPromises[j].defined
    /\ \E i \in DOMAIN batchPromises : batchPromises[i].via = "caught"
    /\ \E i \in DOMAIN batchPromises :
          batchPromises[i].via = "ok" /\ batchPromises[i].features # <<>>

\* C7: the mapLayerId of every task, queued, in flight or output, is in 0..4.
C7_LayerInRange == \A t \in AllTasks : t.mapLayerId \in 0..4

\* C8: a result without features is output only on the last layer, the one
\* from which the requeue test no longer requeues.
C8_EmptyOnlyWhenExhausted ==
    \A i \in DOMAIN runResults :
        runResults[i].features = <<>> =>
            /\ runResults[i].coord.mapLayerId = RequeueBelow
            /\ runResults[i].coord.passes = RequeueBelow + 1

\* a fetched coordinate is output without features
C8_Witness ==
    \E i \in DOMAIN runResults :
        /\ runResults[i].features = <<>>
        /\ parses(runResults[i].coord)
        /\ runResults[i].coord.fetched # <<>>

\* C9: after a run that threw, the message is shown, nothing runs or loads
\* any more, and results is still the empty list of the submit.
C9_FailureShowsMessageOnly ==
    lastRun = "failed" =>
        /\ error = BatchFailedMessage
        /\ results = <<>>
        /\ ~loading
        /\ pc = "idle"
        /\ InFlight = 0

\* the run threw with results collected and coordinates still queued
C9_Witness ==
    /\ lastRun = "failed"
    /\ runResults # <<>>
    /\ queue # <<>>

C11_FetchedIffParses ==
    \A t \in AllTasks :
        /\ (parseCoordinate(t.latitude) = Null \/ parseCoordinate(t.longitude) = Null)
              => t.fetched = <<>>
        /\ (parseCoordinate(t.latitude) # Null /\ parseCoordinate(t.longitude) # Null
              /\ t.passes > 0)
              => (t.fetched # <<>> /\ t.fetched[1] = 0)

\* a batch holds an unparseable coordinate, settled with no fetch, next to a
\* parseable one whose fetch on layer 0 is in flight
C11_Witness ==
    /\ \E i \in DOMAIN batchPromises :
          /\ ~parses(batchPromises[i].coord)
          /\ batchPromises[i].state = "fulfilled"
          /\ batchPromises[i].coord.fetched = <<>>
    /\ \E i \in DOMAIN batchPromises :
          /\ parses(batchPromises[i].coord)
          /\ batchPromises[i].state = "pending"
          /\ batchPromises[i].coord.fetched = <<0>>

\* C13: a requeued task is taken by the very next batch, ahead of the
\* coordinates not yet attempted: in the queue and in a batch no task that was
\* never attempted stands before a requeued one, and while a batch is in
\* flight the queue holds no requeued task at all.
C13_RequeuedGoFirst ==
    /\ \A i, j \in DOMAIN queue :
          (i < j /\ queue[j].passes > 0) => queue[i].passes > 0
    /\ \A i, j \in DOMAIN batchPromises :
          (i < j /\ batchPromises[j].coord.passes > 1) => batchPromises[i].coord.passes > 1
    /\ pc = "awaitAll" => \A i \in DOMAIN queue : queue[i].passes = 0

\* five requeued tasks fill the batch while a coordinate that was never
\* attempted waits in the queue
C13_Witness ==
    /\ pc = "awaitAll"
    /\ Len(batchPromises) = MAX_CONCURRENT_REQUESTS
    /\ \A i \in DOMAIN batchPromises : batchPromises[i].coord.passes > 1
    /\ queue # <<>>

\* C14: between two consecutive batches the loop waits for one BATCH_DELAY:
\* a batch that leaves tasks in the queue is followed by a timer of
\* BATCH_DELAY, which only runs down, and the next batch starts once it has
\* run out; a batch that leaves the queue empty ends the run with no timer.
C14_OneDelayBetweenBatches ==
    [][ /\ (pc = "awaitAll" /\ pc' # "awaitAll") =>
              IF lastRun' = "running"
              THEN pc' = "delay" /\ queue' # <<>> /\ timer' = BATCH_DELAY
              ELSE /\ pc' = "idle" /\ timer' = 0
                   /\ lastRun' = "returned" => queue' = <<>>
        /\ (pc = "delay" /\ pc' = "delay") => timer' <= timer
        /\ (pc = "delay" /\ pc' # "delay") => pc' = "awaitAll" /\ timer < TickMs
        /\ (pc # "awaitAll" /\ pc' = "awaitAll" /\ pc # "delay") =>
              pc = "idle" /\ lastRun # "running"
      ]_vars

\* a batch after the first is in flight: the delay before it has run out
C14_Witness ==
    /\ pc = "awaitAll"
    /\ timer = 0
    /\ \/ runResults # <<>>
       \/ \E i \in DOMAIN batchPromises : batchPromises[i].coord.passes > 1

\* C15: a step that starts a batch takes exactly the first
\* min(batchSize, queue length) tasks of the queue, in queue order, and leaves
\* the rest; in every other step the queue keeps all its tasks (new ones may
\* only be put in front).
C15_BatchIsQueuePrefix ==
    [][ IF pc # "awaitAll" /\ pc' = "awaitAll"
        THEN LET q == IF pc = "idle" THEN initialQueue(coordinates) ELSE queue
                 n == Min(MAX_CONCURRENT_REQUESTS, Len(q))
             IN /\ Len(batchPromises') = n
                /\ \A i \in 1..n :
                      /\ CoordOf(batchPromises'[i].coord) = CoordOf(q[i])
                      /\ batchPromises'[i].coord.mapLayerId = q[i].mapLayerId
                /\ queue' = SubSeq(q, n + 1, Len(q))
        ELSE /\ Len(queue') >= Len(queue)
             /\ queue = SubSeq(queue', Len(queue') - Len(queue) + 1, Len(queue'))
      ]_vars

\* a first batch of batchSize tasks is in flight and the rest of the queue waits
C15_Witness ==
    /\ pc = "awaitAll"
    /\ Len(batchPromises) = MAX_CONCURRENT_REQUESTS
    /\ \A i \in DOMAIN batchPromises : batchPromises[i].coord.passes = 1
    /\ queue # <<>>

\* C16: every task is attempted on the layers 0, 1, 2, ... in this order, none
\* twice and none skipped: a queued task carries the layer of its next attempt,
\* which is the number of attempts it has had; a task in the batch or in the
\* output carries the layer of its last attempt; and the fetches issued for a
\* parseable coordinate are those of the layers 0 up to its last attempt.
C16_LayersConsecutive ==
    /\ \A i \in DOMAIN queue :
          /\ queue[i].mapLayerId = queue[i].passes
          /\ parses(queue[i]) => queue[i].fetched = UpTo(queue[i].mapLayerId - 1)
    /\ \A t \in { batchPromises[i].coord : i \in DOMAIN batchPromises }
                \cup { runResults[i].coord : i \in DOMAIN runResults } :
          /\ t.mapLayerId = t.passes - 1
          /\ parses(t) => t.fetched = UpTo(t.mapLayerId)

\* a coordinate is in the output after attempts on the layers 0, 1 and 2
C16_Witness ==
    \E i \in DOMAIN runResults :
        /\ runResults[i].coord.fetched = <<0, 1, 2>>
        /\ runResults[i].features # <<>>

\* C17: while a fetch of the batch is in flight the queue and the output list
\* of the run do not change, in whatever order the fetches of the batch
\* complete: both are written only after the whole batch has settled.
C17_FrozenWhileInFlight ==
    [][ (pc = "awaitAll" /\ InFlight > 0) => UNCHANGED <<queue, runResults>> ]_vars

\* a later fetch of the batch has completed while an earlier one is in flight
C17_Witness ==
    /\ pc = "awaitAll"
    /\ \E i, j \in DOMAIN batchPromises :
          /\ i < j
          /\ batchPromises[i].state = "pending"
          /\ batchPromises[j].state = "fulfilled"
          /\ batchPromises[j].via \in {"ok", "caught"}

\* C19: during a run and at its return every input coordinate is in exactly
\* one place, as many times as the input has it: in the queue, in the batch
\* being awaited, or in the output list; between two batches, where no batch
\* is awaited, that is the queue or the output list.
C19_EveryCoordinateInOnePlace ==
    lastRun \in {"running", "returned"} =>
        /\ \A c \in Range(coordinates) :
              Occurrences([i \in DOMAIN queue |-> CoordOf(queue[i])], c)
                + Occurrences([i \in DOMAIN batchPromises |-> CoordOf(batchPromises[i].coord)], c)
                + Occurrences([i \in DOMAIN runResults |-> CoordOf(runResults[i].coord)], c)
              = Occurrences(coordinates, c)
        /\ Len(queue) + Len(batchPromises) + Len(runResults) = Len(coordinates)
        /\ pc # "awaitAll" => batchPromises = <<>>

\* between two batches: requeued tasks wait while others are in the output
C19_Witness ==
    /\ pc = "delay"
    /\ runResults # <<>>
    /\ \E i \in DOMAIN queue : queue[i].passes > 0
    /\ \E i \in DOMAIN queue : queue[i].passes = 0

Reverse(s) == [i \in 1..Len(s) |-> s[Len(s) + 1 - i]]

isRequeued(result) ==
    Len(result.features) = 0 /\ result.coord.mapLayerId < RequeueBelow

\* C20: when the result loop of a batch completes, the tasks it requeued stand
\* at the front of the queue in the reverse of their order in the batch, each
\* with the next layer, before the tasks that were waiting; so the last
\* requeued task of the batch is the first task of the queue.
C20_RequeuedInReverse ==
    [][ (pc = "awaitAll" /\ pc' # "awaitAll" /\ lastRun' # "failed") =>
            LET requeued == Reverse(SelectSeq(batchPromises, isRequeued))
            IN queue' = [i \in 1..Len(requeued) |->
                            [requeued[i].coord EXCEPT !.mapLayerId = @ + 1]]
                        \o queue
      ]_vars

\* between two batches, two different requeued tasks head the queue
C20_Witness ==
    /\ pc = "delay"
    /\ Len(queue) > 1
    /\ queue[1].passes > 0
    /\ queue[2].passes > 0
    /\ queue[1] # queue[2]

\* C18: whatever the fetches answer, once each has completed a run that has
\* started empties its queue and returns.
C18_RunReturns ==
    (lastRun = "running") ~> (lastRun = "returned" /\ queue = <<>>)

\* a data row that displayCsvValues can import: it comes after the first three
\* rows and both its cells parse
imports(data, i) ==
    /\ i > 3
    /\ parseStringCoordinate(data[i].col_3) # Failure
    /\ parseStringCoordinate(data[i].col_6) # Failure

RECURSIVE imported(_, _)
imported(data, i) ==
    IF i > Len(data) THEN <<>>
    ELSE (IF imports(data, i)
          THEN <<Coordinate(numberToString(parseStringCoordinate(data[i].col_3)),
                            numberToString(parseStringCoordinate(data[i].col_6)))>>
          ELSE <<>>)
         \o imported(data, i + 1)

\* C12: an upload raises no failure and leaves the list as it was, followed by
\* one coordinate for each data row whose latitude and longitude both parse, in
\* the order of the rows: a row that fails to parse gives nothing and stops
\* nothing.
C12_BadRowsSkipped ==
    upload # NoUpload =>
        /\ ~upload.thrown
        /\ coordinates = upload.prev \o imported(upload.data, 1)
        /\ error = ""

\* a file was imported into a list of several coordinates: a data row whose
\* latitude has no seconds stands between two rows that were imported
C12_Witness ==
    /\ upload # NoUpload
    /\ Len(upload.prev) > 1
    /\ \E i, j, k \in DOMAIN upload.data :
          /\ i < j /\ j < k
          /\ imports(upload.data, i)
          /\ j > 3 /\ truthy(upload.data[j].col_3) /\ truthy(upload.data[j].col_6)
          /\ parseStringCoordinate(upload.data[j].col_3) = Failure
          /\ imports(upload.data, k)
    /\ Len(coordinates) = Len(upload.prev) + 2

\* C21: from the submit on and while its run lasts, loading is true and error
\* and results are empty; once the run has finished, by returning or by
\* throwing, loading is false, and error is non-empty only if that run threw.
C21_LoadingAndErrorFollowTheRun ==
    /\ lastRun = "running" => (loading /\ error = "" /\ results = <<>>)
    /\ lastRun # "running" => ~loading
    /\ error # "" => lastRun = "failed"

\* a run has finished by a throw of runInBatches: the message is shown and
\* nothing loads
C21_Witness ==
    /\ lastRun = "failed"
    /\ ~loading
    /\ error # ""
    /\ results = <<>>
    /\ pc = "idle"

====
